---- MODULE Spec2Model ----
(***************************************************************************)
(* Model of src/src/utils.py: get_taxon_id, get_taxonlist_species and      *)
(* plot_bar.  The remote Entrez service and the dataframe libraries are    *)
(* the environment: their answers are inputs drawn from small sets.        *)
(***************************************************************************)
EXTENDS Integers, Sequences, FiniteSets, TLC

VARIABLES
    \* ---- get_taxon_id ----
    resolver_pc,        \* "idle" | "returned" | "raised"
    taxon_name,         \* argument taxon_name
    search_response,    \* what the service answers to an esearch request
    search_requests,    \* esearch requests emitted by the call
    resolver_result,    \* value returned / exception raised
    \* ---- get_taxonlist_species ----
    filter_pc,          \* "idle" | "loop" | "waiting" | "returned" | "raised"
    taxonlist,          \* argument taxonlist
    summary_svc,        \* the service: identifier -> answer to esummary
    species_taxa,       \* local list species_taxa
    idx,                \* number of identifiers fully processed
    record,             \* local variable record (sequence of 0 or 1 records)
    events,             \* requests emitted / responses handled in this run
    stdout,             \* messages printed in this run
    results,            \* lists returned by the completed runs
    filter_exc,         \* exception that left get_taxonlist_species, or ""
    \* ---- plot_bar ----
    plot_pc,            \* "idle" | "returned" | "raised"
    df,                 \* argument df: the category column, row by row
    sort_order,         \* argument sort_order
    filter_list,        \* argument filter_list ([given |-> FALSE] is None)
    chart               \* the chart returned

resolverVars == <<resolver_pc, taxon_name, search_response, search_requests,
                  resolver_result>>
filterVars == <<filter_pc, taxonlist, summary_svc, species_taxa, idx, record,
                events, stdout, results, filter_exc>>
plotVars == <<plot_pc, df, sort_order, filter_list, chart>>
vars == <<resolverVars, filterVars, plotVars>>

\* ---------------------------------------------------------------- bounds
MaxIds == 3       \* longest IdList the search service answers with
MaxLen == 3       \* longest taxonlist
MaxRuns == 2      \* runs of get_taxonlist_species on the same input
MaxRows == 3      \* rows of the dataset
MaxSort == 2      \* longest sort_order
MaxFilter == 1    \* longest filter_list

\* ------------------------------------------------------------- utilities
Range(s) == {s[i] : i \in DOMAIN s}

SeqsUpTo(S, n) == UNION {[1..k -> S] : k \in 0..n}

RECURSIVE SumLen(_)
SumLen(rows) == IF rows = <<>> THEN 0 ELSE Head(rows).len + SumLen(Tail(rows))

RECURSIVE SelectRows(_, _)
SelectRows(rows, keep) ==
    IF rows = <<>> THEN <<>>
    ELSE IF Head(rows).cat \in keep
         THEN <<Head(rows)>> \o SelectRows(Tail(rows), keep)
         ELSE SelectRows(Tail(rows), keep)

\* ------------------------------------------------------------ environment
TaxonNames == {"Elodea", "Lemna minor", "Chara"}
TaxonIds == {"3700", "4472", "13780"}

\* urllib raises HTTPError for an HTTP error status and the more general
\* URLError (its base class) for a failure to reach the server at all.
TransportErrors == {"HTTPError", "URLError"}

SearchResponses ==
    {[outcome |-> "ok", IdList |-> l] : l \in SeqsUpTo(TaxonIds, MaxIds)}
    \cup {[outcome |-> e, IdList |-> <<>>] : e \in TransportErrors}

ScientificNameOf(id) ==
    CASE id = "3700" -> "Brassica"
      [] id = "4472" -> "Lemna minor"
      [] OTHER -> "Elodea canadensis"

SummaryRecords(id) ==
    {[Rank |-> "species", Genus |-> "Lemna", ScientificName |-> ScientificNameOf(id)],
     [Rank |-> "species", Genus |-> "", ScientificName |-> ScientificNameOf(id)],
     [Rank |-> "genus", Genus |-> "", ScientificName |-> ScientificNameOf(id)],
     [Rank |-> "family", Genus |-> "Lemna", ScientificName |-> ScientificNameOf(id)]}

\* An esummary answer: a parsed array holding one record, an empty array,
\* or an exception raised by the request.
SummaryResponses(id) ==
    {[outcome |-> "ok", body |-> <<r>>] : r \in SummaryRecords(id)}
    \cup {[outcome |-> "ok", body |-> <<>>]}
    \cup {[outcome |-> e, body |-> <<>>] : e \in TransportErrors}

SummaryServices ==
    {f \in [TaxonIds -> UNION {SummaryResponses(id) : id \in TaxonIds}] :
        \A id \in TaxonIds : f[id] \in SummaryResponses(id)}

Null == "null"
Categories == {"x", "y", "z"}

\* ---------------------------------------------------------- get_taxon_id
Sentinel == "Database error, try later..."

esearch_request(name) ==
    [db |-> "taxonomy", term |-> <<name, "[orgn]">>, retmax |-> 10000]

\* Variant: the request is issued a second time after an HTTP error.
get_taxon_id_retry(name, response) ==
    IF response.outcome = "HTTPError"
    THEN [requests |-> <<esearch_request(name), esearch_request(name)>>,
          status |-> "returned", type |-> "str", text |-> Sentinel,
          list |-> <<>>]
    ELSE IF response.outcome = "ok"
    THEN [requests |-> <<esearch_request(name)>>, status |-> "returned",
          type |-> "list", text |-> "", list |-> response.IdList]
    ELSE [requests |-> <<esearch_request(name)>>, status |-> "raised",
          type |-> response.outcome, text |-> "", list |-> <<>>]

\* Variant: an empty IdList is reported like a database error.
get_taxon_id_empty_is_error(name, response) ==
    IF response.outcome = "HTTPError"
       \/ (response.outcome = "ok" /\ response.IdList = <<>>)
    THEN [requests |-> <<esearch_request(name)>>, status |-> "returned",
          type |-> "str", text |-> Sentinel, list |-> <<>>]
    ELSE IF response.outcome = "ok"
    THEN [requests |-> <<esearch_request(name)>>, status |-> "returned",
          type |-> "list", text |-> "", list |-> response.IdList]
    ELSE [requests |-> <<esearch_request(name)>>, status |-> "raised",
          type |-> response.outcome, text |-> "", list |-> <<>>]

get_taxon_id(name, response) ==
    IF response.outcome = "HTTPError"
    THEN [requests |-> <<esearch_request(name)>>, status |-> "returned",
          type |-> "str", text |-> Sentinel, list |-> <<>>]
    ELSE IF response.outcome = "ok"
    THEN [requests |-> <<esearch_request(name)>>, status |-> "returned",
          type |-> "list", text |-> "", list |-> response.IdList]
    ELSE [requests |-> <<esearch_request(name)>>, status |-> "raised",
          type |-> response.outcome, text |-> "", list |-> <<>>]

Call_get_taxon_id ==
    /\ resolver_pc = "idle"
    /\ \E name \in TaxonNames, response \in SearchResponses :
          LET out == get_taxon_id(name, response) IN
          /\ taxon_name' = name
          /\ search_response' = response
          /\ search_requests' = out.requests
          /\ resolver_result' = [status |-> out.status, type |-> out.type,
                                 text |-> out.text, list |-> out.list]
          /\ resolver_pc' = out.status
    /\ UNCHANGED <<filterVars, plotVars>>

\* ------------------------------------------------- get_taxonlist_species
esummary_request(id) == [db |-> "taxonomy", id |-> id, retmax |-> 10000]

Diagnostic == "New Error. Nemas Problemas!"

\* Variant: the condition parenthesised the other way round.
Qualifies_precedence(r) ==
    r.Rank = "species" /\ (r.Genus # "" \/ r.Rank = "genus")

\* Variant: the test of the Genus field left out.
Qualifies_any_species(r) ==
    r.Rank = "species" \/ r.Rank = "genus"

Qualifies(r) ==
    (r.Rank = "species" /\ r.Genus # "") \/ r.Rank = "genus"

\* Variant: the rank test placed after the try statement instead of in its
\* else branch, so that after an IndexError it runs on the previous record.
handle_response_stale(taxa, rec, response) ==
    IF response.outcome # "ok"
    THEN [status |-> response.outcome, species_taxa |-> taxa, record |-> rec,
          printed |-> <<>>]
    ELSE LET now == IF response.body = <<>> THEN rec ELSE <<response.body[1]>>
         IN [status |-> "next",
             species_taxa |-> IF now # <<>> /\ Qualifies(now[1])
                              THEN Append(taxa, now[1].ScientificName)
                              ELSE taxa,
             record |-> now,
             printed |-> IF response.body = <<>> THEN <<Diagnostic>> ELSE <<>>]

\* Variant: the commented-out "except HTTPError" branch made live.
handle_response_skip_http(taxa, rec, response) ==
    IF response.outcome = "HTTPError"
    THEN [status |-> "next", species_taxa |-> taxa, record |-> rec,
          printed |-> <<"New Error, but bro, stay seated, we skip it and keep searching...">>]
    ELSE IF response.outcome # "ok"
    THEN [status |-> response.outcome, species_taxa |-> taxa, record |-> rec,
          printed |-> <<>>]
    ELSE IF response.body = <<>>
    THEN [status |-> "next", species_taxa |-> taxa, record |-> rec,
          printed |-> <<Diagnostic>>]
    ELSE LET r == response.body[1] IN
         [status |-> "next",
          species_taxa |-> IF Qualifies(r)
                           THEN Append(taxa, r.ScientificName) ELSE taxa,
          record |-> <<r>>, printed |-> <<>>]

\* One pass through the loop body once the answer is in: the try block,
\* the except IndexError branch and the else branch.
handle_response(taxa, rec, response) ==
    IF response.outcome # "ok"
    THEN [status |-> response.outcome, species_taxa |-> taxa, record |-> rec,
          printed |-> <<>>]
    ELSE IF response.body = <<>>
    THEN [status |-> "next", species_taxa |-> taxa, record |-> rec,
          printed |-> <<Diagnostic>>]
    ELSE LET r == response.body[1] IN
         [status |-> "next",
          species_taxa |-> IF Qualifies(r)
                           THEN Append(taxa, r.ScientificName) ELSE taxa,
          record |-> <<r>>, printed |-> <<>>]

\* Variant: the accumulator outlives the call (a list shared between calls).
Enter_shared_list ==
    /\ species_taxa' = species_taxa
    /\ idx' = 0
    /\ record' = <<>>
    /\ events' = <<>>
    /\ stdout' = <<>>
    /\ filter_pc' = "loop"

Enter ==
    /\ species_taxa' = <<>>
    /\ idx' = 0
    /\ record' = <<>>
    /\ events' = <<>>
    /\ stdout' = <<>>
    /\ filter_pc' = "loop"

Call_get_taxonlist_species ==
    /\ filter_pc = "idle"
    /\ \E tl \in SeqsUpTo(TaxonIds, MaxLen), svc \in SummaryServices :
          /\ taxonlist' = tl
          /\ summary_svc' = svc
    /\ Enter
    /\ UNCHANGED <<results, filter_exc, resolverVars, plotVars>>

Call_again ==
    /\ filter_pc = "returned"
    /\ Len(results) < MaxRuns
    /\ Enter
    /\ UNCHANGED <<taxonlist, summary_svc, results, filter_exc, resolverVars,
                   plotVars>>

\* Variant: the requests for all remaining identifiers are sent at once.
EmitRequest_batched ==
    /\ filter_pc = "loop"
    /\ idx < Len(taxonlist)
    /\ events' = events \o
                   [k \in 1..(Len(taxonlist) - idx) |->
                       [kind |-> "request",
                        req |-> esummary_request(taxonlist[idx + k])]]
    /\ filter_pc' = "waiting"
    /\ UNCHANGED <<taxonlist, summary_svc, species_taxa, idx, record, stdout,
                   results, filter_exc, resolverVars, plotVars>>

EmitRequest ==
    /\ filter_pc = "loop"
    /\ idx < Len(taxonlist)
    /\ events' = Append(events, [kind |-> "request",
                                 req |-> esummary_request(taxonlist[idx + 1])])
    /\ filter_pc' = "waiting"
    /\ UNCHANGED <<taxonlist, summary_svc, species_taxa, idx, record, stdout,
                   results, filter_exc, resolverVars, plotVars>>

HandleResponse ==
    /\ filter_pc = "waiting"
    /\ LET taxon_id == taxonlist[idx + 1]
           out == handle_response(species_taxa, record, summary_svc[taxon_id])
       IN /\ events' = Append(events, [kind |-> "response",
                                       req |-> esummary_request(taxon_id)])
          /\ species_taxa' = out.species_taxa
          /\ record' = out.record
          /\ stdout' = stdout \o out.printed
          /\ IF out.status = "next"
             THEN filter_pc' = "loop" /\ idx' = idx + 1
                  /\ filter_exc' = filter_exc
             ELSE filter_pc' = "raised" /\ idx' = idx
                  /\ filter_exc' = out.status
    /\ UNCHANGED <<taxonlist, summary_svc, results, resolverVars, plotVars>>

Return ==
    /\ filter_pc = "loop"
    /\ idx = Len(taxonlist)
    /\ results' = Append(results, species_taxa)
    /\ filter_pc' = "returned"
    /\ UNCHANGED <<taxonlist, summary_svc, species_taxa, idx, record, events,
                   stdout, filter_exc, resolverVars, plotVars>>

\* -------------------------------------------------------------- plot_bar
X_Titles == {"Growth form"}

Datasets == SeqsUpTo(Categories \cup {Null}, MaxRows)
SortOrders == SeqsUpTo(Categories, MaxSort)
FilterLists ==
    {[given |-> FALSE, values |-> <<>>]}
    \cup {[given |-> TRUE, values |-> v] : v \in SeqsUpTo(Categories, MaxFilter)}

Count(v, s) == Cardinality({i \in DOMAIN s : s[i] = v})

\* The distinct values of s.  The row order of a group_by is unspecified;
\* first appearance is used here, and as the dataset ranges over every row
\* order, every order of the groups occurs.
RECURSIVE Distinct(_)
Distinct(s) ==
    IF s = <<>> THEN <<>>
    ELSE LET d == Distinct(SubSeq(s, 1, Len(s) - 1)) IN
         IF s[Len(s)] \in Range(d) THEN d ELSE Append(d, s[Len(s)])

\* df.group_by(category).len(): one row per distinct value, null included.
group_by_len(rows) ==
    LET d == Distinct(rows) IN
    [i \in 1..Len(d) |-> [cat |-> d[i], len |-> Count(d[i], rows)]]

HasDuplicates(s) == \E i, j \in DOMAIN s : i # j /\ s[i] = s[j]

\* Variant: values outside sort_order keep their value.
Categorical_keep_unlisted(rows, order) ==
    [i \in DOMAIN rows |-> [cat |-> rows[i].cat, len |-> rows[i].len]]

\* pd.Categorical(column, sort_order, ordered=True): a value that is not one
\* of the categories becomes missing.
Categorical(rows, order) ==
    [i \in DOMAIN rows |->
        [cat |-> IF rows[i].cat \in Range(order) THEN rows[i].cat ELSE Null,
         len |-> rows[i].len]]

is_not_null(rows) == SelectRows(rows, {r.cat : r \in Range(rows)} \ {Null})

\* Variant: "if filter_list:" in place of "if filter_list is not None:".
apply_filter_truthy(rows, flist) ==
    IF flist.given /\ flist.values # <<>>
    THEN SelectRows(rows, Range(flist.values)) ELSE rows

apply_filter(rows, flist) ==
    IF flist.given THEN SelectRows(rows, Range(flist.values)) ELSE rows

plot_bar(data, order, flist, x_title) ==
    LET grouped == group_by_len(data)
        typed == Categorical(grouped, order)
        kept == apply_filter(is_not_null(typed), flist)
    IN [data |-> kept,
        x_title |-> <<x_title, ", N=", ToString(SumLen(kept))>>]

Call_plot_bar ==
    /\ plot_pc = "idle"
    /\ \E data \in Datasets, order \in SortOrders, flist \in FilterLists,
          x_title \in X_Titles :
          /\ df' = data
          /\ sort_order' = order
          /\ filter_list' = flist
          /\ IF HasDuplicates(order)
             THEN plot_pc' = "raised" /\ chart' = chart
             ELSE plot_pc' = "returned"
                  /\ chart' = plot_bar(data, order, flist, x_title)
    /\ UNCHANGED <<resolverVars, filterVars>>

\* ------------------------------------------------------------------ Init
Init ==
    /\ resolver_pc = "idle"
    /\ taxon_name = ""
    /\ search_response = [outcome |-> "ok", IdList |-> <<>>]
    /\ search_requests = <<>>
    /\ resolver_result = [status |-> "idle", type |-> "", text |-> "", list |-> <<>>]
    /\ filter_pc = "idle"
    /\ taxonlist = <<>>
    /\ summary_svc = [id \in TaxonIds |-> [outcome |-> "ok", body |-> <<>>]]
    /\ species_taxa = <<>>
    /\ idx = 0
    /\ record = <<>>
    /\ events = <<>>
    /\ stdout = <<>>
    /\ results = <<>>
    /\ filter_exc = ""
    /\ plot_pc = "idle"
    /\ df = <<>>
    /\ sort_order = <<>>
    /\ filter_list = [given |-> FALSE, values |-> <<>>]
    /\ chart = [data |-> <<>>, x_title |-> <<>>]

NextResolver == Call_get_taxon_id
SpecResolver == Init /\ [][NextResolver]_vars

NextFilter ==
    \/ Call_get_taxonlist_species
    \/ Call_again
    \/ EmitRequest
    \/ HandleResponse
    \/ Return
SpecFilter == Init /\ [][NextFilter]_vars

NextPlot == Call_plot_bar
SpecPlot == Init /\ [][NextPlot]_vars

\* ================================================================ claims
\* ---- get_taxon_id
ResolverDone == resolver_pc # "idle"

SoftFailure ==
    /\ resolver_pc = "returned"
    /\ resolver_result.type = "str"
    /\ resolver_result.text = Sentinel
    /\ Len(search_requests) = 1

\* C1 (as stated): whenever the search request fails with a transport error
\* the call does not raise, returns exactly the sentinel string and emits no
\* second request.
C1_AnyTransportError ==
    (ResolverDone /\ search_response.outcome \in TransportErrors) => SoftFailure

\* C1 (amended): whenever the search request fails with an HTTPError the
\* call does not raise, returns exactly the sentinel string and emits no
\* second request.
C1_HTTPErrorSoftFailure ==
    (ResolverDone /\ search_response.outcome = "HTTPError") => SoftFailure

C1_Witness ==
    /\ resolver_pc = "returned"
    /\ search_response.outcome = "HTTPError"
    /\ resolver_result.text = Sentinel

\* C2: when the search request completes without error, the call returns
\* the service's IdList unchanged (same elements, same order, possibly
\* empty) and never the sentinel string.
C2_SuccessReturnsIdList ==
    (ResolverDone /\ search_response.outcome = "ok") =>
        /\ resolver_pc = "returned"
        /\ resolver_result.type = "list"
        /\ resolver_result.list = search_response.IdList
        /\ resolver_result.text # Sentinel
        /\ Len(search_requests) = 1

C2_Witness ==
    /\ resolver_pc = "returned"
    /\ search_response.outcome = "ok"
    /\ Len(resolver_result.list) = 2
    /\ resolver_result.list[1] = "4472"
    /\ resolver_result.list[2] = "3700"

C2_WitnessEmpty ==
    /\ resolver_pc = "returned"
    /\ search_response.outcome = "ok"
    /\ resolver_result.type = "list"
    /\ resolver_result.list = <<>>

\* ---- get_taxonlist_species
HasRecord(id) ==
    summary_svc[id].outcome = "ok" /\ summary_svc[id].body # <<>>

RecordOf(id) == summary_svc[id].body[1]

\* The qualifying predicate in the words of the specification.
IsSpeciesOrGenus(id) ==
    /\ HasRecord(id)
    /\ \/ RecordOf(id).Rank = "genus"
       \/ RecordOf(id).Rank = "species" /\ RecordOf(id).Genus # ""

RECURSIVE NamesOfQualifying(_)
NamesOfQualifying(ids) ==
    IF ids = <<>> THEN <<>>
    ELSE IF IsSpeciesOrGenus(Head(ids))
         THEN <<RecordOf(Head(ids)).ScientificName>> \o NamesOfQualifying(Tail(ids))
         ELSE NamesOfQualifying(Tail(ids))

\* C3: the returned list is the sequence of ScientificNames of the input
\* identifiers whose record is a genus or a species with non-empty Genus,
\* in input order, once per occurrence.
C3_FilterExact ==
    /\ filter_pc = "returned" =>
          /\ species_taxa = NamesOfQualifying(taxonlist)
          /\ results[Len(results)] = species_taxa

\* identifiers [A, B, C]: A species without genus, B genus, C species with
\* genus; the call has returned [B's name, C's name].
C3_Witness ==
    /\ filter_pc = "returned"
    /\ Len(taxonlist) = 3
    /\ HasRecord(taxonlist[1]) /\ HasRecord(taxonlist[2]) /\ HasRecord(taxonlist[3])
    /\ RecordOf(taxonlist[1]).Rank = "species" /\ RecordOf(taxonlist[1]).Genus = ""
    /\ RecordOf(taxonlist[2]).Rank = "genus"
    /\ RecordOf(taxonlist[3]).Rank = "species" /\ RecordOf(taxonlist[3]).Genus # ""
    /\ species_taxa = <<RecordOf(taxonlist[2]).ScientificName,
                        RecordOf(taxonlist[3]).ScientificName>>

\* C4: at every point of the loop and at return, the accumulated list is no
\* longer than the number of identifiers processed (itself at most the
\* input length), and each of its names is the ScientificName of the record
\* of a processed identifier that qualifies.
C4_LoopInvariant ==
    /\ Len(species_taxa) <= idx
    /\ idx <= Len(taxonlist)
    /\ \A k \in DOMAIN species_taxa :
          \E j \in 1..idx :
             /\ IsSpeciesOrGenus(taxonlist[j])
             /\ RecordOf(taxonlist[j]).ScientificName = species_taxa[k]

\* in the middle of the loop, one name accumulated out of two processed
\* identifiers, the skipped one being a species without genus
C4_Witness ==
    /\ filter_pc = "waiting"
    /\ idx = 2
    /\ Len(species_taxa) = 1
    /\ \E j \in 1..2 : /\ HasRecord(taxonlist[j])
                       /\ RecordOf(taxonlist[j]).Rank = "species"
                       /\ RecordOf(taxonlist[j]).Genus = ""

EmptyResponse(id) ==
    summary_svc[id].outcome = "ok" /\ summary_svc[id].body = <<>>

C5_Step ==
    (filter_pc = "waiting" /\ EmptyResponse(taxonlist[idx + 1])) =>
        /\ species_taxa' = species_taxa
        /\ idx' = idx + 1
        /\ filter_pc' = "loop"
        /\ results' = results

C5_LaterKept ==
    filter_pc = "returned" =>
        /\ \A j \in DOMAIN taxonlist :
              IsSpeciesOrGenus(taxonlist[j]) =>
                 RecordOf(taxonlist[j]).ScientificName \in Range(species_taxa)
        /\ Len(species_taxa) =
              Cardinality({j \in DOMAIN taxonlist : IsSpeciesOrGenus(taxonlist[j])})

\* C5: handling an empty summary response appends nothing (not even the
\* previous identifier's record), keeps the names accumulated so far and
\* moves on to the next identifier; the names of later qualifying
\* identifiers are still returned.
C5_EmptySkipped == [][C5_Step]_vars /\ [](C5_LaterKept)

\* a qualifying identifier, then one with an empty response, then another
\* qualifying one: both names are returned and one diagnostic was printed
C5_Witness ==
    /\ filter_pc = "returned"
    /\ Len(taxonlist) = 3
    /\ IsSpeciesOrGenus(taxonlist[1])
    /\ EmptyResponse(taxonlist[2])
    /\ IsSpeciesOrGenus(taxonlist[3])
    /\ species_taxa = <<RecordOf(taxonlist[1]).ScientificName,
                        RecordOf(taxonlist[3]).ScientificName>>
    /\ stdout = <<Diagnostic>>

RequestIndices == {i \in DOMAIN events : events[i].kind = "request"}

\* C6: requests and responses alternate (a request is emitted only when
\* every earlier one has been answered and handled), the k-th request is
\* for the k-th input identifier, and a completed run has emitted exactly
\* one request per input identifier.
C6_RequestsSequential ==
    /\ \A i \in DOMAIN events :
          /\ events[i].kind = (IF i % 2 = 1 THEN "request" ELSE "response")
          /\ (i + 1) \div 2 <= Len(taxonlist)
          /\ events[i].req = esummary_request(taxonlist[(i + 1) \div 2])
    /\ filter_pc = "returned" =>
          /\ Len(events) = 2 * Len(taxonlist)
          /\ Cardinality(RequestIndices) = Len(taxonlist)

\* a completed run over a duplicated identifier with an empty response and
\* a non-qualifying identifier between its two occurrences
C6_Witness ==
    /\ filter_pc = "returned"
    /\ Len(taxonlist) = 3
    /\ taxonlist[1] = taxonlist[3]
    /\ EmptyResponse(taxonlist[1])
    /\ HasRecord(taxonlist[2]) /\ ~IsSpeciesOrGenus(taxonlist[2])
    /\ Cardinality(RequestIndices) = 3

\* C9: all runs on the same identifier sequence against the same service
\* return equal lists.
C9_Idempotent ==
    \A i, j \in DOMAIN results : results[i] = results[j]

C9_Witness ==
    /\ Len(results) >= 2
    /\ filter_pc = "returned"
    /\ Len(results[1]) >= 2
    /\ \E j \in DOMAIN taxonlist : EmptyResponse(taxonlist[j])

\* C10: an error raised by a summary request other than the empty-response
\* IndexError is never skipped over: it leaves the function as the same
\* exception, no request follows the failed one, and no list is returned.
C10_OtherErrorsPropagate ==
    /\ \A j \in 1..idx : summary_svc[taxonlist[j]].outcome = "ok"
    /\ (filter_pc = "loop" /\ idx < Len(taxonlist)) => filter_exc = ""
    /\ filter_pc = "raised" =>
          /\ summary_svc[taxonlist[idx + 1]].outcome \in TransportErrors
          /\ filter_exc = summary_svc[taxonlist[idx + 1]].outcome
          /\ Len(events) = 2 * (idx + 1)
          /\ events[Len(events) - 1] =
                [kind |-> "request", req |-> esummary_request(taxonlist[idx + 1])]
          /\ results = <<>>
    /\ filter_pc # "raised" => filter_exc = ""

\* the second of three identifiers fails with an HTTPError after a first
\* qualifying one: the call has raised, with one name accumulated and the
\* third identifier never requested
C10_Witness ==
    /\ filter_pc = "raised"
    /\ filter_exc = "HTTPError"
    /\ Len(taxonlist) = 3
    /\ idx = 1
    /\ Len(species_taxa) = 1
    /\ Cardinality(RequestIndices) = 2
    /\ results = <<>>

\* ---- plot_bar
ChartCategories == {chart.data[i].cat : i \in DOMAIN chart.data}

RowsIn(S) == Cardinality({i \in DOMAIN df : df[i] \in S})

TitleWithN(n) == <<"Growth form", ", N=", ToString(n)>>

RenderedExactly(S) ==
    /\ ChartCategories = S
    /\ Len(chart.data) = Cardinality(S)
    /\ \A i \in DOMAIN chart.data :
          chart.data[i].len = RowsIn({chart.data[i].cat})
    /\ chart.x_title = TitleWithN(RowsIn(S))

\* C7: without filter_list the rendered aggregate holds exactly the
\* categories that occur in the dataset and are listed in sort_order (null
\* and unlisted rows are dropped), each with its row count, and N in the
\* x-axis title is the number of rows of the retained categories.
C7_UnlistedDropped ==
    (plot_pc = "returned" /\ ~filter_list.given) =>
        RenderedExactly((Range(df) \cap Range(sort_order)) \ {Null})

\* sort_order = [x, y]; the dataset has an x row, a z row and a null row:
\* only x is rendered and N = 1
C7_Witness ==
    /\ plot_pc = "returned"
    /\ ~filter_list.given
    /\ sort_order = <<"x", "y">>
    /\ Range(df) = {"x", "z", Null}
    /\ ChartCategories = {"x"}
    /\ chart.x_title = TitleWithN(1)

\* C8: with filter_list the rendered aggregate holds exactly the categories
\* that are in the dataset, in sort_order and in filter_list, and N in the
\* x-axis title is the number of rows of that subset.
C8_FilterRestricts ==
    (plot_pc = "returned" /\ filter_list.given) =>
        RenderedExactly((Range(df) \cap Range(sort_order)
                            \cap Range(filter_list.values)) \ {Null})

\* filter_list = [x] on a dataset with two x rows and a y row, both listed
\* in sort_order: only x is rendered and N = 2
C8_Witness ==
    /\ plot_pc = "returned"
    /\ filter_list.given
    /\ filter_list.values = <<"x">>
    /\ sort_order = <<"x", "y">>
    /\ Range(df) = {"x", "y"}
    /\ ChartCategories = {"x"}
    /\ chart.x_title = TitleWithN(2)

====
